---- MODULE Spec2Model ----
(***************************************************************************)
(* PayPal webhook endpoint of the TechConnect server                       *)
(* (src/unnamed/part_000): raw-body capture, token exchange, delegated     *)
(* signature verification, event routing and the Firestore update of       *)
(* technicians/<custom_id>.validationStatus.                               *)
(*                                                                         *)
(* One JavaScript turn (the code between two awaits) is one atomic action; *)
(* the turns of different requests interleave freely.                      *)
(***************************************************************************)
EXTENDS Naturals, Sequences, FiniteSets, TLC

\* Number of webhook deliveries handled concurrently.
NumRequests == 2

Reqs == 1..NumRequests

VARIABLES
    pc,          \* where each request's handling stands
    wire,        \* the request as sent
    rawBody,     \* req.rawBody
    body,        \* req.body
    tokenReply,  \* the reply getPayPalAccessToken got
    verifyReply, \* the reply the verification call got
    isVerified,  \* the handler's isVerified: "unset", "true", "false"
    updates,     \* the update calls each request made on the store
    storeError,  \* the error the request's update call threw ("" for none)
    responses,   \* the responses sent to each request
    calls,       \* the outbound calls each request made, in order
    store        \* the technicians collection

-----------------------------------------------------------------------------
(* JSON text and JSON values.                                              *)
(* A body on the wire is a sequence of lexical tokens [k, v]; whitespace   *)
(* between tokens is a token of its own, so two texts of the same value    *)
(* can differ.  A value is a record [t, s, m]: t its type, s the payload   *)
(* of a string, m the members (in source order) of an object.              *)

P(c)  == [k |-> "punct", v |-> c]
S(x)  == [k |-> "string", v |-> x]
WS    == [k |-> "ws", v |-> " "]
NullT == [k |-> "null", v |-> "null"]

JUndefined == [t |-> "undefined", s |-> "", m |-> <<>>]
JNull      == [t |-> "null", s |-> "", m |-> <<>>]
JStr(x)    == [t |-> "string", s |-> x, m |-> <<>>]
JObj(ms)   == [t |-> "object", s |-> "", m |-> ms]
JArr       == [t |-> "array", s |-> "", m |-> <<>>]

Fail(ts)    == [ok |-> FALSE, val |-> JUndefined, rest |-> ts]
Ok(v, ts)   == [ok |-> TRUE, val |-> v, rest |-> ts]
IsP(ts, c)  == Len(ts) > 0 /\ Head(ts) = P(c)

\* The lexer's view of a text: whitespace between tokens is skipped.
StripWs(ts) == SelectSeq(ts, LAMBDA x : x.k # "ws")

RECURSIVE ParseValue(_)
RECURSIVE ParseMembers(_, _)

\* members := string ":" value ("," string ":" value)* "}"
ParseMembers(ts, acc) ==
    IF Len(ts) < 2 \/ Head(ts).k # "string" \/ ~IsP(Tail(ts), ":")
    THEN Fail(ts)
    ELSE LET key == Head(ts).v
             pv  == ParseValue(Tail(Tail(ts)))
             ms  == Append(acc, [key |-> key, val |-> pv.val])
         IN  IF ~pv.ok THEN Fail(ts)
             ELSE IF IsP(pv.rest, "}") THEN Ok(JObj(ms), Tail(pv.rest))
             ELSE IF IsP(pv.rest, ",") THEN ParseMembers(Tail(pv.rest), ms)
             ELSE Fail(ts)

\* value := string | null | "[" "]" | "{" "}" | "{" members
ParseValue(ts) ==
    IF Len(ts) = 0 THEN Fail(ts)
    ELSE IF Head(ts).k = "string" THEN Ok(JStr(Head(ts).v), Tail(ts))
    ELSE IF Head(ts).k = "null" THEN Ok(JNull, Tail(ts))
    ELSE IF IsP(ts, "[")
         THEN IF IsP(Tail(ts), "]") THEN Ok(JArr, Tail(Tail(ts))) ELSE Fail(ts)
    ELSE IF IsP(ts, "{")
         THEN IF IsP(Tail(ts), "}") THEN Ok(JObj(<<>>), Tail(Tail(ts)))
              ELSE ParseMembers(Tail(ts), <<>>)
    ELSE Fail(ts)

\* JSON.parse(text): [threw, val]; a text with anything after its value is
\* a SyntaxError.
JSONParse(text) ==
    LET pv == ParseValue(StripWs(text))
    IN  IF pv.ok /\ pv.rest = <<>>
        THEN [threw |-> FALSE, val |-> pv.val]
        ELSE [threw |-> TRUE, val |-> JUndefined]

\* obj.key for a value that is not undefined or null: the last member of
\* that name, or undefined.
RECURSIVE Lookup(_, _, _)
Lookup(ms, key, i) ==
    IF i = 0 THEN JUndefined
    ELSE IF ms[i].key = key THEN ms[i].val
    ELSE Lookup(ms, key, i - 1)

Get(obj, key) == Lookup(obj.m, key, Len(obj.m))

\* Reading a property of undefined or null is a TypeError.
GetThrows(obj) == obj.t \in {"undefined", "null"}

\* JavaScript truthiness, as used by `!technicianId`.
Truthy(v) ==
    CASE v.t = "undefined" -> FALSE
      [] v.t = "null"      -> FALSE
      [] v.t = "string"    -> v.s # ""
      [] OTHER             -> TRUE

RECURSIVE JSONStringify(_)
RECURSIVE StringifyMembers(_, _, _)

\* The members of an object from the i-th on; a member whose value is
\* undefined is left out.
StringifyMembers(ms, i, first) ==
    IF i > Len(ms) THEN <<>>
    ELSE IF ms[i].val.t = "undefined" THEN StringifyMembers(ms, i + 1, first)
    ELSE (IF first THEN <<>> ELSE << P(",") >>)
         \o << S(ms[i].key), P(":") >> \o JSONStringify(ms[i].val)
         \o StringifyMembers(ms, i + 1, FALSE)

\* JSON.stringify(value): the text without any whitespace.
JSONStringify(v) ==
    CASE v.t = "string" -> << S(v.s) >>
      [] v.t = "null"   -> << NullT >>
      [] v.t = "array"  -> << P("["), P("]") >>
      [] v.t = "object" -> << P("{") >> \o StringifyMembers(v.m, 1, TRUE)
                           \o << P("}") >>
      [] OTHER          -> <<>>

-----------------------------------------------------------------------------
(* The requests the provider (or anyone else) can send.                    *)

CANCELLED == "BILLING.SUBSCRIPTION.CANCELLED"

\* Document ids of the technicians collection that exist when the server
\* starts, and one that does not.
Registered   == {"t1", "t2"}
Unregistered == {"t9"}
TechIds      == Registered \cup Unregistered

Invalid == [k |-> "invalid", v |-> "0xFF"]

\* {"event_type":<tag>,"resource":{"custom_id":<id>}}
EventText(tag, id) ==
    << P("{"), S("event_type"), P(":"), S(tag), P(","), S("resource"), P(":"),
       P("{"), S("custom_id"), P(":"), S(id), P("}"), P("}") >>

\* { "event_type": <tag>, "resource": <resource text> }   (with spaces)
EventWith(tag, res) ==
    << P("{"), WS, S("event_type"), P(":"), WS, S(tag), P(","), WS,
       S("resource"), P(":"), WS >> \o res \o << WS, P("}") >>

Bodies ==
    { EventText(CANCELLED, id) : id \in TechIds }
    \cup { EventText(CANCELLED, ""),
           EventText("PAYMENT.SALE.COMPLETED", "t1"),
           EventWith(CANCELLED, << P("{"), P("}") >>),
           << P("{"), S("event_type"), P(":"), S(CANCELLED), P("}") >>,
           << P("{"), S("resource"), P(":"), P("{"), S("custom_id"), P(":"),
              S("t1"), P("}"), P("}") >>,
           << P("{"), S("event_type"), P(":") >>,
           << S("t1") >>,
           << P("{"), Invalid, P("}") >> }

\* A request on the wire, with Content-Type application/json: the body's
\* bytes (<<>>: no body).
Wires == { [buf |-> b] : b \in Bodies \cup {<<>>} }

-----------------------------------------------------------------------------
(* express.json({ verify }) : src/unnamed/part_000 lines 109-113.          *)

\* buf.toString(): UTF-8 decoding; a byte sequence that is not UTF-8
\* becomes the replacement character.
Utf8Decode(tok) ==
    IF tok.k = "invalid" THEN [k |-> "replaced", v |-> "U+FFFD"] ELSE tok

BufToString(buf) == [i \in 1..Len(buf) |-> Utf8Decode(buf[i])]

NoRawBody   == [defined |-> FALSE, text |-> <<>>]
RawBody(ts) == [defined |-> TRUE, text |-> ts]

\* The parser's strict mode: the first token of the text opens an object or
\* an array.
StrictStart(text) ==
    LET ts == StripWs(text)
    IN  Len(ts) > 0 /\ (Head(ts) = P("{") \/ Head(ts) = P("["))

\* What the middleware leaves on the request.  A request with no body is
\* passed on untouched (req.body is {}, req.rawBody is never set); otherwise the verify callback stores the text and the parser
\* runs on it, and a text it rejects ends the request with the framework's
\* 400 before the route handler is called.
ExpressJson(w) ==
    IF w.buf = <<>>
    THEN [next |-> TRUE, rawBody |-> NoRawBody, body |-> JObj(<<>>)]
    ELSE LET raw    == BufToString(w.buf)
             parsed == JSONParse(raw)
         IN  IF StrictStart(raw) /\ ~parsed.threw
             THEN [next |-> TRUE, rawBody |-> RawBody(raw), body |-> parsed.val]
             ELSE [next |-> FALSE, rawBody |-> RawBody(raw), body |-> JUndefined]

-----------------------------------------------------------------------------
(* Outbound calls.  A reply of fetch(): err, the call rejected (transport  *)
(* error); ok, response.ok; parseable, response.json() does not throw;     *)
(* field, the access_token or verification_status of the JSON.             *)

Reply(e, o, p, f) == [err |-> e, ok |-> o, parseable |-> p, field |-> f]
NoReply == Reply(FALSE, FALSE, FALSE, "none")

\* The token endpoint grants the exchange of request r: a token of its own
\* for each exchange, so that a token can be told from another's.
Granted(r) == Reply(FALSE, TRUE, TRUE, "A21AA-" \o ToString(r))

\* What the token endpoint can answer the exchange of request r.
TokenReplies(r) ==
    { Granted(r),
      Reply(FALSE, FALSE, TRUE, "") }

VerifyReplies ==
    { Reply(FALSE, TRUE, TRUE, "SUCCESS"),
      Reply(FALSE, TRUE, TRUE, "FAILURE"),
      Reply(FALSE, TRUE, FALSE, ""),
      Reply(FALSE, FALSE, TRUE, ""),
      Reply(TRUE, FALSE, FALSE, "") }

\* Errors of technicianRef.update() on a document that exists.
StoreErrors == {"UNAVAILABLE", "PERMISSION_DENIED"}

\* getPayPalAccessToken(), given the reply to its fetch: throws on a
\* rejected fetch, on !response.ok and on a body response.json() rejects.
getPayPalAccessToken(reply) ==
    IF reply.err \/ ~reply.ok \/ ~reply.parseable
    THEN [threw |-> TRUE, token |-> ""]
    ELSE [threw |-> FALSE, token |-> reply.field]

\* The access token kept in a variable of the module: the token another
\* request obtained is sent when there is one.
VerifyPrepare_Cached(reply, raw) ==
    LET tok   == getPayPalAccessToken(reply)
        ev    == IF raw.defined THEN JSONParse(raw.text)
                 ELSE [threw |-> TRUE, val |-> JUndefined]
        given == { q \in Reqs : tokenReply[q].ok /\ tokenReply[q].parseable }
    IN  IF tok.threw \/ ev.threw
        THEN [send |-> FALSE, token |-> "", webhook_event |-> JUndefined]
        ELSE [send |-> TRUE,
              token |-> IF given = {} THEN tok.token
                        ELSE tokenReply[CHOOSE q \in given : TRUE].field,
              webhook_event |-> ev.val]

\* getPayPalAccessToken without the throw on !response.ok: the verification
\* call is sent with whatever access_token the refusal carried.
VerifyPrepare_NoThrow(reply, raw) ==
    LET ev == IF raw.defined THEN JSONParse(raw.text)
              ELSE [threw |-> TRUE, val |-> JUndefined]
    IN  IF reply.err \/ ~reply.parseable \/ ev.threw
        THEN [send |-> FALSE, token |-> "", webhook_event |-> JUndefined]
        ELSE [send |-> TRUE, token |-> reply.field, webhook_event |-> ev.val]

\* verifyPayPalWebhook before its second fetch: the token exchange and
\* JSON.parse(rawBody) (of the string "undefined" when rawBody was never
\* set); either throwing lands in the catch, which returns false.
VerifyPrepare(reply, raw) ==
    LET tok == getPayPalAccessToken(reply)
        ev  == IF raw.defined THEN JSONParse(raw.text)
               ELSE [threw |-> TRUE, val |-> JUndefined]
    IN  IF tok.threw \/ ev.threw
        THEN [send |-> FALSE, token |-> "", webhook_event |-> JUndefined]
        ELSE [send |-> TRUE, token |-> tok.token, webhook_event |-> ev.val]

\* The transmission headers of a request and the configured webhook id.
Headers ==
    << [key |-> "auth_algo",         val |-> JStr("SHA256withRSA")],
       [key |-> "cert_url",          val |-> JStr("https://api.paypal.com/cert")],
       [key |-> "transmission_id",   val |-> JStr("tx")],
       [key |-> "transmission_sig",  val |-> JStr("sig")],
       [key |-> "transmission_time", val |-> JStr("time")],
       [key |-> "webhook_id",        val |-> JStr("WH-ID")] >>

\* verificationData: lines 72-80.
VerificationData(event) ==
    JObj(Append(Headers, [key |-> "webhook_event", val |-> event]))

\* An outbound call: whom it is made to, its credentials, the text sent.
Call(to, auth, text) == [to |-> to, auth |-> auth, text |-> text]

\* The fetch of getPayPalAccessToken: lines 49-56.
TokenCall == Call("token", "Basic", << S("grant_type=client_credentials") >>)

\* The fetch of verifyPayPalWebhook: lines 82-89.
VerifyCall(prep) ==
    Call("verify", "Bearer " \o prep.token,
         JSONStringify(VerificationData(prep.webhook_event)))

\* The update call as the store client sends it.
StoreCall(technicianId) == Call("store", "", << S(technicianId) >>)

\* verifyPayPalWebhook whose catch returns true.
VerifyVerdict_CatchTrue(reply) ==
    IF reply.err THEN TRUE
    ELSE IF ~reply.ok THEN FALSE
    ELSE IF ~reply.parseable THEN TRUE
    ELSE reply.field = "SUCCESS"

\* The verdict kept in a variable of the module: once a request was
\* verified, later requests are taken as verified too.
VerifyVerdict_Shared(reply) ==
    \/ \E q \in Reqs : isVerified[q] = "true"
    \/ (~reply.err /\ reply.ok /\ reply.parseable /\ reply.field = "SUCCESS")

\* verifyPayPalWebhook after its second fetch: the value it returns.
VerifyVerdict(reply) ==
    IF reply.err THEN FALSE
    ELSE IF ~reply.ok THEN FALSE
    ELSE IF ~reply.parseable THEN FALSE
    ELSE reply.field = "SUCCESS"

\* Route without the `if (!technicianId)` return.
Route_NoIdCheck(event) ==
    IF GetThrows(event) THEN [kind |-> "throw", id |-> "", text |-> ""]
    ELSE IF Get(event, "event_type") = JStr(CANCELLED)
    THEN LET resource == Get(event, "resource")
         IN  IF GetThrows(resource)
             THEN [kind |-> "throw", id |-> "", text |-> ""]
             ELSE [kind |-> "update", id |-> Get(resource, "custom_id").s,
                   text |-> ""]
    ELSE [kind |-> "respond", id |-> "", text |-> "Webhook recibido y procesado"]

\* Route without the test of event_type.
Route_NoTagCheck(event) ==
    IF GetThrows(event) THEN [kind |-> "throw", id |-> "", text |-> ""]
    ELSE LET resource == Get(event, "resource")
         IN  IF GetThrows(resource)
             THEN [kind |-> "throw", id |-> "", text |-> ""]
             ELSE LET technicianId == Get(resource, "custom_id")
                  IN  IF ~Truthy(technicianId)
                      THEN [kind |-> "respond", id |-> "",
                            text |-> "Evento recibido pero sin technicianId."]
                      ELSE [kind |-> "update", id |-> technicianId.s, text |-> ""]

\* The route handler after a true verdict, up to its next await or its
\* response: lines 130-157.  (A custom_id, where a body has one, is a
\* string.)
Route(event) ==
    IF GetThrows(event) THEN [kind |-> "throw", id |-> "", text |-> ""]
    ELSE IF Get(event, "event_type") = JStr(CANCELLED)
    THEN LET resource == Get(event, "resource")
         IN  IF GetThrows(resource)
             THEN [kind |-> "throw", id |-> "", text |-> ""]
             ELSE LET technicianId == Get(resource, "custom_id")
                  IN  IF ~Truthy(technicianId)
                      THEN [kind |-> "respond", id |-> "",
                            text |-> "Evento recibido pero sin technicianId."]
                      ELSE [kind |-> "update", id |-> technicianId.s, text |-> ""]
    ELSE [kind |-> "respond", id |-> "", text |-> "Webhook recibido y procesado"]

\* update() called with another value.
UpdateCall_Cancelled(technicianId) ==
    [doc |-> <<"technicians", technicianId>>, field |-> "validationStatus",
     value |-> "cancelled"]

\* technicianRef.update({ validationStatus: 'pending' })
UpdateCall(technicianId) ==
    [doc |-> <<"technicians", technicianId>>, field |-> "validationStatus",
     value |-> "pending"]

Response(status, text) == [status |-> status, text |-> text]

-----------------------------------------------------------------------------
vars == << pc, wire, rawBody, body, tokenReply, verifyReply, isVerified,
           updates, storeError, responses, calls, store >>

NoWire == [buf |-> <<>>]
NoDoc  == [exists |-> FALSE, validationStatus |-> "", name |-> ""]

\* The collection when the server starts: a record, approved, for each
\* registered technician.
InitStore ==
    [id \in TechIds |->
        IF id \in Registered
        THEN [exists |-> TRUE, validationStatus |-> "approved", name |-> id]
        ELSE NoDoc]

Init ==
    /\ pc = [r \in Reqs |-> "Idle"]
    /\ wire = [r \in Reqs |-> NoWire]
    /\ rawBody = [r \in Reqs |-> NoRawBody]
    /\ body = [r \in Reqs |-> JUndefined]
    /\ tokenReply = [r \in Reqs |-> NoReply]
    /\ verifyReply = [r \in Reqs |-> NoReply]
    /\ isVerified = [r \in Reqs |-> "unset"]
    /\ updates = [r \in Reqs |-> <<>>]
    /\ storeError = [r \in Reqs |-> ""]
    /\ responses = [r \in Reqs |-> <<>>]
    /\ calls = [r \in Reqs |-> <<>>]
    /\ store = InitStore

\* res.status(n).send(text), and the end of this request's handling.
Respond(r, state, status, text) ==
    /\ pc' = [pc EXCEPT ![r] = state]
    /\ responses' = [responses EXCEPT ![r] = Append(@, Response(status, text))]

\* The rejection answered with another status.
Reject_403(r) ==
    /\ isVerified' = [isVerified EXCEPT ![r] = "false"]
    /\ Respond(r, "Rejected", 403, "Verificacion de Webhook fallida.")

\* The rejection answered with the message of the error behind it.
Reject_Leak(r) ==
    /\ isVerified' = [isVerified EXCEPT ![r] = "false"]
    /\ Respond(r, "Rejected", 401,
               IF tokenReply[r] = NoReply
               THEN "Failed to get PayPal access token."
               ELSE "Verificacion de Webhook fallida.")

\* return res.status(401).send(...): lines 123-126.
Reject(r) ==
    /\ isVerified' = [isVerified EXCEPT ![r] = "false"]
    /\ Respond(r, "Rejected", 401, "Verificacion de Webhook fallida.")

\* A request arrives: the middleware runs, then the handler up to the fetch
\* of getPayPalAccessToken.
Receive(r, w) ==
    /\ pc[r] = "Idle"
    /\ wire' = [wire EXCEPT ![r] = w]
    /\ LET mw == ExpressJson(w)
       IN  /\ rawBody' = [rawBody EXCEPT ![r] = mw.rawBody]
           /\ body' = [body EXCEPT ![r] = mw.body]
           /\ IF mw.next
              THEN /\ pc' = [pc EXCEPT ![r] = "AwaitToken"]
                   /\ calls' = [calls EXCEPT ![r] = Append(@, TokenCall)]
                   /\ UNCHANGED responses
              ELSE Respond(r, "BadRequest", 400, "Bad Request")
                   /\ UNCHANGED calls
    /\ UNCHANGED << tokenReply, verifyReply, isVerified, updates, storeError,
                    store >>

\* The token endpoint replies: the rest of getPayPalAccessToken, then
\* verifyPayPalWebhook up to its own fetch, or its catch and the 401.
TokenRespond(r, reply) ==
    /\ pc[r] = "AwaitToken"
    /\ tokenReply' = [tokenReply EXCEPT ![r] = reply]
    /\ LET prep == VerifyPrepare(reply, rawBody[r])
       IN  IF prep.send
           THEN /\ pc' = [pc EXCEPT ![r] = "AwaitVerify"]
                /\ calls' = [calls EXCEPT ![r] = Append(@, VerifyCall(prep))]
                /\ UNCHANGED << isVerified, responses >>
           ELSE Reject(r) /\ UNCHANGED calls
    /\ UNCHANGED << wire, rawBody, body, verifyReply, updates, storeError,
                    store >>

\* An exception leaves the async handler: the framework answers 500 from
\* its error handler, or (a rejected promise nobody handles) never answers.
Escape(r) ==
    /\ pc' = [pc EXCEPT ![r] = "Threw"]
    /\ \/ responses' = [responses EXCEPT
                          ![r] = Append(@, Response(500, "Internal Server Error"))]
       \/ UNCHANGED responses

\* The verification endpoint replies: the verdict, and on true the handler
\* up to its response or to the await of the store update.
VerifyRespond(r, reply) ==
    /\ pc[r] = "AwaitVerify"
    /\ verifyReply' = [verifyReply EXCEPT ![r] = reply]
    /\ IF ~VerifyVerdict(reply)
       THEN Reject(r) /\ UNCHANGED << updates, calls >>
       ELSE /\ isVerified' = [isVerified EXCEPT ![r] = "true"]
            /\ LET todo == Route(body[r])
               IN  CASE todo.kind = "respond" ->
                          /\ Respond(r, "Ignored", 200, todo.text)
                          /\ UNCHANGED << updates, calls >>
                     [] todo.kind = "throw" ->
                          Escape(r) /\ UNCHANGED << updates, calls >>
                     [] todo.kind = "update" ->
                          /\ updates' = [updates EXCEPT
                                           ![r] = Append(@, UpdateCall(todo.id))]
                          /\ calls' = [calls EXCEPT
                                         ![r] = Append(@, StoreCall(todo.id))]
                          /\ pc' = [pc EXCEPT ![r] = "AwaitUpdate"]
                          /\ UNCHANGED responses
    /\ UNCHANGED << wire, rawBody, body, tokenReply, storeError, store >>

\* The document the request's update call addresses.
Target(r) == updates[r][Len(updates[r])].doc[2]

\* The update toggles the record between 'approved' and 'pending'.
UpdateCommit_Toggle(r) ==
    /\ pc[r] = "AwaitUpdate"
    /\ store[Target(r)].exists
    /\ store' = [store EXCEPT
                   ![Target(r)].validationStatus =
                       IF @ = "pending" THEN "approved" ELSE "pending"]
    /\ Respond(r, "Mutated", 200, "Webhook recibido y procesado")
    /\ UNCHANGED << wire, rawBody, body, tokenReply, verifyReply, isVerified,
                    updates, storeError, calls >>

\* The update writes back a copy of the collection taken at start-up with
\* the one record changed.
UpdateCommit_StaleSnapshot(r) ==
    /\ pc[r] = "AwaitUpdate"
    /\ store[Target(r)].exists
    /\ store' = [InitStore EXCEPT ![Target(r)].validationStatus = "pending"]
    /\ Respond(r, "Mutated", 200, "Webhook recibido y procesado")
    /\ UNCHANGED << wire, rawBody, body, tokenReply, verifyReply, isVerified,
                    updates, storeError, calls >>

\* set() in place of update(): the document is written whether or not it
\* exists, with the one field.
UpdateCommit_Set(r) ==
    /\ pc[r] = "AwaitUpdate"
    /\ store' = [store EXCEPT
                   ![Target(r)] = [exists |-> TRUE,
                                   validationStatus |-> "pending",
                                   name |-> ""]]
    /\ Respond(r, "Mutated", 200, "Webhook recibido y procesado")
    /\ UNCHANGED << wire, rawBody, body, tokenReply, verifyReply, isVerified,
                    updates, storeError, calls >>

\* The store commits the update; the handler answers 200: lines 149, 160.
UpdateCommit(r) ==
    /\ pc[r] = "AwaitUpdate"
    /\ store[Target(r)].exists
    /\ store' = [store EXCEPT ![Target(r)].validationStatus = "pending"]
    /\ Respond(r, "Mutated", 200, "Webhook recibido y procesado")
    /\ UNCHANGED << wire, rawBody, body, tokenReply, verifyReply, isVerified,
                    updates, storeError, calls >>

\* The catch of the update logs the error and falls through to the 200.
UpdateFail_FallThrough(r, e) ==
    /\ pc[r] = "AwaitUpdate"
    /\ IF store[Target(r)].exists THEN e \in StoreErrors ELSE e = "NOT_FOUND"
    /\ storeError' = [storeError EXCEPT ![r] = e]
    /\ Respond(r, "MutationFailed", 200, "Webhook recibido y procesado")
    /\ UNCHANGED << wire, rawBody, body, tokenReply, verifyReply, isVerified,
                    updates, calls, store >>

\* The update call throws (NOT_FOUND when the document does not exist);
\* the catch answers 500: lines 150-154.
UpdateFail(r, e) ==
    /\ pc[r] = "AwaitUpdate"
    /\ IF store[Target(r)].exists THEN e \in StoreErrors ELSE e = "NOT_FOUND"
    /\ storeError' = [storeError EXCEPT ![r] = e]
    /\ Respond(r, "MutationFailed", 500,
               "Error interno del servidor al actualizar la base de datos.")
    /\ UNCHANGED << wire, rawBody, body, tokenReply, verifyReply, isVerified,
                    updates, calls, store >>

\* A reply to the fetch a request waits for arrives, and its handler runs
\* on.  Neither fetch is given a timeout or an abort signal (lines 49-56,
\* 82-89): nothing but the reply ends the wait.
FetchSettles(r) ==
    \/ \E reply \in TokenReplies(r) : TokenRespond(r, reply)
    \/ \E reply \in VerifyReplies : VerifyRespond(r, reply)

\* The store client settles the update call, and the handler runs on.
UpdateSettles(r) ==
    \/ UpdateCommit(r)
    \/ \E e \in StoreErrors \cup {"NOT_FOUND"} : UpdateFail(r, e)

Step(r) ==
    \/ \E w \in Wires : Receive(r, w)
    \/ FetchSettles(r)
    \/ UpdateSettles(r)

Next == \E r \in Reqs : Step(r)

Spec == Init /\ [][Next]_vars

\* What the program and its libraries see to: the store client bounds each
\* call by its own deadline, and the event loop runs the continuation of
\* every settled await.  Nothing obliges the provider to send a request, or
\* its endpoints to answer a fetch.
LiveSpec == Spec /\ \A r \in Reqs : WF_vars(UpdateSettles(r))

-----------------------------------------------------------------------------
(* What a request carries, read off its parsed body.                       *)

EventType(r) == Get(body[r], "event_type")

IsCancellation(r) == body[r].t = "object" /\ EventType(r) = JStr(CANCELLED)

\* resource.custom_id; undefined when there is no resource to read it from.
CustomId(r) ==
    LET resource == Get(body[r], "resource")
    IN  IF GetThrows(resource) THEN JUndefined ELSE Get(resource, "custom_id")

HasId(r) == CustomId(r).t = "string" /\ CustomId(r).s # ""

Success == Reply(FALSE, TRUE, TRUE, "SUCCESS")

Statuses(r) == [i \in 1..Len(responses[r]) |-> responses[r][i].status]

-----------------------------------------------------------------------------
(* Claims.                                                                 *)

Rejection == Response(401, "Verificacion de Webhook fallida.")

PendingUpdate(id) ==
    [doc |-> <<"technicians", id>>, field |-> "validationStatus",
     value |-> "pending"]

\* The request got through verification, is a cancellation and names a
\* technician.
Qualifies(r) ==
    /\ verifyReply[r] = Success
    /\ isVerified[r] = "true"
    /\ IsCancellation(r)
    /\ HasId(r)

\* C1: a request has made an update call on the store only if it passed
\* signature verification, its event_type is the cancellation tag and its
\* resource.custom_id is non-empty; and a record of the store differs from
\* its initial value only through the update call of such a request.
C1_MutationOnlyWhenQualified ==
    /\ \A r \in Reqs : updates[r] # <<>> => Qualifies(r)
    /\ \A id \in TechIds :
          store[id] # InitStore[id] =>
              \E r \in Reqs : /\ Qualifies(r)
                              /\ updates[r] = << PendingUpdate(id) >>

C1_Witness ==
    \E r \in Reqs : pc[r] = "AwaitUpdate" /\ updates[r] # <<>> /\ Qualifies(r)

TokenOk(r) ==
    ~tokenReply[r].err /\ tokenReply[r].ok /\ tokenReply[r].parseable

BodyParses(r) == rawBody[r].defined /\ ~JSONParse(rawBody[r].text).threw

\* C2: verifyPayPalWebhook returns true only when the token exchange
\* succeeded, the raw body parsed and the verification call answered with a
\* success status and verification_status "SUCCESS"; after any other
\* outcome of either call it has returned false (the request is rejected),
\* and the only exception that leaves a handler comes after a true verdict.
C2_FailClosed ==
    \A r \in Reqs :
        /\ isVerified[r] = "true" =>
              TokenOk(r) /\ verifyReply[r] = Success /\ BodyParses(r)
        /\ (tokenReply[r] # NoReply /\ ~TokenOk(r)) =>
              isVerified[r] = "false" /\ verifyReply[r] = NoReply
        /\ (tokenReply[r] # NoReply /\ ~rawBody[r].defined) =>
              isVerified[r] = "false" /\ verifyReply[r] = NoReply
        /\ (verifyReply[r] # NoReply /\ verifyReply[r] # Success) =>
              isVerified[r] = "false"
        /\ verifyReply[r] # NoReply => BodyParses(r)
        /\ isVerified[r] = "false" => pc[r] = "Rejected"
        /\ pc[r] = "Threw" => isVerified[r] = "true"

C2_Witness ==
    \E r1, r2 \in Reqs :
        /\ isVerified[r1] = "true"
        /\ isVerified[r2] = "false" /\ verifyReply[r2].err

\* C3: a request whose verification returned false has made no update call,
\* has been answered 401 and nothing else, and takes no further step.
C3_RejectedNeverMutates ==
    \A r \in Reqs :
        isVerified[r] = "false" =>
            /\ updates[r] = <<>>
            /\ responses[r] = << Rejection >>
            /\ pc[r] = "Rejected"
            /\ ~ENABLED Step(r)

C3_Witness ==
    \E r \in Reqs :
        /\ isVerified[r] = "false"
        /\ IsCancellation(r) /\ HasId(r)
        /\ verifyReply[r] = Reply(FALSE, TRUE, TRUE, "FAILURE")

\* C4: a verified cancellation that names a technician has made exactly one
\* update call: validationStatus := "pending" on technicians/<custom_id>.
C4_ExactlyOneUpdate ==
    \A r \in Reqs :
        (isVerified[r] = "true" /\ IsCancellation(r) /\ HasId(r)) =>
            updates[r] = << PendingUpdate(CustomId(r).s) >>

C4_Witness ==
    \E r \in Reqs :
        /\ pc[r] = "Mutated"
        /\ updates[r] = << PendingUpdate("t1") >>
        /\ store["t1"].validationStatus = "pending"

\* C5: a request whose update call failed has been answered 500 and nothing
\* else; a verified cancellation naming a technician that has been answered
\* 200 has its record's validationStatus committed as "pending".
C5_FailedUpdateIs500 ==
    \A r \in Reqs :
        /\ storeError[r] # "" => Statuses(r) = << 500 >>
        /\ ( /\ isVerified[r] = "true" /\ IsCancellation(r) /\ HasId(r)
             /\ \E i \in 1..Len(responses[r]) : responses[r][i].status = 200 )
           => /\ store[CustomId(r).s].exists
              /\ store[CustomId(r).s].validationStatus = "pending"

C5_Witness ==
    \E r1, r2 \in Reqs :
        /\ storeError[r1] = "NOT_FOUND" /\ pc[r1] = "MutationFailed"
        /\ storeError[r2] = "UNAVAILABLE" /\ pc[r2] = "MutationFailed"

Terminal == {"Rejected", "Ignored", "Mutated", "MutationFailed", "BadRequest",
             "Threw"}

\* C6: no request leaves its handler by an exception, and every request
\* that is over has been answered exactly once, with 200, 401 or 500.
C6_AlwaysDefinedResponse ==
    \A r \in Reqs :
        /\ pc[r] # "Threw"
        /\ pc[r] \in Terminal =>
              /\ Len(responses[r]) = 1
              /\ responses[r][1].status \in {200, 401, 500}

\* C7: a verified cancellation whose correlation identifier is absent or
\* empty has made no update call and has been answered 200.
C7_NoIdIs200 ==
    \A r \in Reqs :
        (isVerified[r] = "true" /\ IsCancellation(r) /\ ~HasId(r)) =>
            /\ updates[r] = <<>>
            /\ Statuses(r) = << 200 >>

\* C8: a verified request whose event_type is not the cancellation tag (or
\* is absent) has made no update call and has been answered 200.
C8_OtherEventsIgnored ==
    \A r \in Reqs :
        (isVerified[r] = "true" /\ ~IsCancellation(r)) =>
            /\ updates[r] = <<>>
            /\ Statuses(r) = << 200 >>
            /\ pc[r] = "Ignored"

C8_Witness ==
    \E r1, r2 \in Reqs :
        /\ isVerified[r1] = "true" /\ pc[r1] = "Ignored"
        /\ EventType(r1) = JStr("PAYMENT.SALE.COMPLETED")
        /\ isVerified[r2] = "true" /\ pc[r2] = "Ignored"
        /\ EventType(r2) = JUndefined

Waiting(r) == pc[r] \in {"AwaitToken", "AwaitVerify"}

\* C9: every request received is eventually answered: in particular its
\* wait for the token exchange and for the verification call ends, also when
\* no reply comes, by then with a 401.
C9_EveryRequestAnswered ==
    \A r \in Reqs :
        /\ (pc[r] # "Idle") ~> (pc[r] \in Terminal /\ responses[r] # <<>>)
        /\ Waiting(r) ~> (~Waiting(r))

\* The transitions of Received -> Verifying -> {Rejected | Routing ->
\* {Ignored | Mutating -> {Mutated | MutationFailed}}}, in terms of pc:
\* Verifying is the wait for either outbound call, Routing the synchronous
\* code after a true verdict, Mutating the wait for the update.
LinearEdges ==
    { <<"AwaitToken", "AwaitVerify">>,
      <<"AwaitToken", "Rejected">>, <<"AwaitVerify", "Rejected">>,
      <<"AwaitVerify", "Ignored">>, <<"AwaitVerify", "AwaitUpdate">>,
      <<"AwaitUpdate", "Mutated">>, <<"AwaitUpdate", "MutationFailed">> }

\* C10: once the handler has a request, its control state moves only along
\* the linear transitions, it is answered at most once and only together
\* with reaching a terminal state after the verdict, and nothing of it
\* changes after a terminal state.
C10_LinearControl ==
    [][\A r \in Reqs :
          pc[r] # "Idle" =>
              /\ pc'[r] # pc[r] => <<pc[r], pc'[r]>> \in LinearEdges
              /\ Len(responses'[r]) <= 1
              /\ responses'[r] # responses[r] =>
                    /\ pc'[r] \in Terminal
                    /\ pc[r] \notin Terminal
                    /\ isVerified'[r] # "unset"
              /\ pc[r] \in Terminal =>
                    /\ pc'[r] = pc[r]
                    /\ updates'[r] = updates[r]
                    /\ responses'[r] = responses[r]]_vars

\* The store after one successful delivery of a cancellation for id.
SetPending(s, id) == [s EXCEPT ![id].validationStatus = "pending"]

\* The request's update succeeded and it carried the identifier id.
Committed(r, id) == pc[r] = "Mutated" /\ Target(r) = id

\* C11: when the same verified cancellation has been delivered twice and
\* both updates succeeded, the record it names is what one delivery leaves
\* (validationStatus 'pending', every other field as before), and no other
\* record differs from its initial value unless a further request committed
\* an update of that record.
C11_Idempotent ==
    \A r1, r2 \in Reqs :
        (/\ r1 # r2
         /\ wire[r1] = wire[r2]
         /\ pc[r1] = "Mutated"
         /\ pc[r2] = "Mutated") =>
            LET id == Target(r1)
            IN  /\ Target(r2) = id
                /\ store[id] = SetPending(InitStore, id)[id]
                /\ \A other \in TechIds \ {id} :
                      store[other] # InitStore[other] =>
                          \E r3 \in Reqs \ {r1, r2} : Committed(r3, other)

C11_Witness ==
    \E r1, r2 \in Reqs :
        /\ r1 # r2
        /\ wire[r1] = wire[r2]
        /\ pc[r1] = "Mutated" /\ pc[r2] = "Mutated"
        /\ store = SetPending(InitStore, Target(r1))

-----------------------------------------------------------------------------
(* Redelivery.  The catch of the update answers 500 "para que PayPal pueda *)
(* reintentar" (lines 152-153): the provider sends an event again when the *)
(* delivery was answered with a status that is not a success.              *)

NoSuccess(r) ==
    /\ responses[r] # <<>>
    /\ responses[r][Len(responses[r])].status \notin {200}

\* The provider sends the event of r again; the new delivery takes the
\* place of the answered one and is handled as any request is.  The
\* middleware yields for the same bytes the rawBody and body it yielded
\* before, and its 400 where it answered 400.
Redeliver(r) ==
    /\ pc[r] \in {"Rejected", "MutationFailed", "BadRequest", "Threw"}
    /\ NoSuccess(r)
    /\ IF pc[r] = "BadRequest"
       THEN UNCHANGED << pc, calls, responses >>
       ELSE /\ pc' = [pc EXCEPT ![r] = "AwaitToken"]
            /\ calls' = [calls EXCEPT ![r] = << TokenCall >>]
            /\ responses' = [responses EXCEPT ![r] = <<>>]
    /\ tokenReply' = [tokenReply EXCEPT ![r] = NoReply]
    /\ verifyReply' = [verifyReply EXCEPT ![r] = NoReply]
    /\ isVerified' = [isVerified EXCEPT ![r] = "unset"]
    /\ updates' = [updates EXCEPT ![r] = <<>>]
    /\ storeError' = [storeError EXCEPT ![r] = ""]
    /\ UNCHANGED << wire, rawBody, body, store >>

RedeliveryNext ==
    \/ Next
    \/ \E r \in Reqs : Redeliver(r)

\* An endpoint that goes on answering the deliveries of an event does not
\* refuse each of them: the token is granted, the event verifies.
EndpointsFair(r) ==
    /\ []<><<\E reply \in TokenReplies(r) : TokenRespond(r, reply)>>_vars
          => []<><<TokenRespond(r, Granted(r))>>_vars
    /\ []<><<\E reply \in VerifyReplies : VerifyRespond(r, reply)>>_vars
          => []<><<VerifyRespond(r, Success)>>_vars

\* The program under a provider that redelivers and a store whose update
\* eventually succeeds.  As in LiveSpec, nothing obliges an endpoint to
\* answer a fetch.
RedeliverySpec ==
    /\ Init /\ [][RedeliveryNext]_vars
    /\ \A r \in Reqs : /\ WF_vars(UpdateSettles(r))
                       /\ WF_vars(Redeliver(r))
                       /\ SF_vars(UpdateCommit(r))
                       /\ EndpointsFair(r)

\* C12: under redelivery and a store whose update eventually succeeds, a
\* verified cancellation that names a registered technician leads to a
\* delivery answered 200 with the record 'pending'; and a delivery whose
\* update failed is answered 500.
C12_NeverDropped ==
    /\ \A r \in Reqs :
          (Qualifies(r) /\ CustomId(r).s \in Registered)
              ~> (/\ pc[r] = "Mutated"
                  /\ Statuses(r) = << 200 >>
                  /\ store[CustomId(r).s].validationStatus = "pending")
    /\ [](\A r \in Reqs : pc[r] = "MutationFailed" => Statuses(r) = << 500 >>)

-----------------------------------------------------------------------------
Contains(text, sub) ==
    \E i \in 1..(Len(text) + 1 - Len(sub)) :
        SubSeq(text, i, i + Len(sub) - 1) = sub

VerifyCalls(r) == SelectSeq(calls[r], LAMBDA c : c.to = "verify")

\* C13: what a request submits for verification holds the body as it came
\* over the wire, token for token (whitespace included), and rawBody is
\* that same text.
C13_VerifiesTransmittedBytes ==
    \A r \in Reqs :
        \A i \in 1..Len(VerifyCalls(r)) :
            /\ rawBody[r].text = wire[r].buf
            /\ Contains(VerifyCalls(r)[i].text, wire[r].buf)

-----------------------------------------------------------------------------
\* C14: whatever the interleaving of the requests, every record is
\* determined by which updates were committed and not by their order: the
\* record of an identifier some request committed an update for is the
\* initial record with validationStatus 'pending', and every other record is
\* the initial record.
C14_OrderIndependent ==
    \A id \in TechIds :
        store[id] = IF \E r \in Reqs : Committed(r, id)
                    THEN SetPending(InitStore, id)[id]
                    ELSE InitStore[id]

C14_Witness ==
    \E r1, r2 \in Reqs :
        /\ Committed(r1, "t1") /\ Committed(r2, "t2")
        /\ store["t1"].validationStatus = "pending"
        /\ store["t2"].validationStatus = "pending"

-----------------------------------------------------------------------------
\* C15: nothing of one request reaches another except through the store.
\* A request's verdict is that of its own verification, its raw body that
\* of its own bytes, its update call is keyed by its own custom_id and made
\* only after its own verification succeeded; a request whose verification
\* failed is answered 401 and makes no update call, whatever the other
\* requests do; and a record differs from its initial value only if a
\* request that carries its identifier was itself verified.
C15_RequestsIsolated ==
    /\ \A r \in Reqs :
          /\ isVerified[r] = "true" => verifyReply[r] = Success
          /\ (rawBody[r].defined /\ pc[r] # "BadRequest") =>
                rawBody[r].text = wire[r].buf
          /\ updates[r] # <<>> =>
                /\ verifyReply[r] = Success
                /\ HasId(r)
                /\ updates[r] = << PendingUpdate(CustomId(r).s) >>
          /\ (verifyReply[r] \notin {NoReply, Success}
                \/ (tokenReply[r] # NoReply /\ ~TokenOk(r))) =>
                /\ pc[r] = "Rejected"
                /\ isVerified[r] = "false"
                /\ responses[r] = << Rejection >>
                /\ updates[r] = <<>>
    /\ \A id \in TechIds :
          store[id] # InitStore[id] =>
              \E r \in Reqs : /\ verifyReply[r] = Success
                              /\ HasId(r)
                              /\ CustomId(r).s = id

\* A request is rejected while another that carries the same body is
\* accepted and its update committed.
C15_Witness ==
    \E r1, r2 \in Reqs :
        /\ wire[r1] = wire[r2]
        /\ pc[r1] = "Rejected" /\ verifyReply[r1] \notin {NoReply, Success}
        /\ pc[r2] = "Mutated"
        /\ store[Target(r2)].validationStatus = "pending"

-----------------------------------------------------------------------------
TokenCalls(r) == SelectSeq(calls[r], LAMBDA c : c.to = "token")

\* C16: a request makes at most one verification call, and one that does
\* has made exactly one token exchange, before it; the bearer token of the
\* call is the token that exchange returned, and is not the token the
\* exchange of any other request returned.
C16_FreshToken ==
    \A r \in Reqs :
        LET sent == VerifyCalls(r)
        IN  /\ Len(sent) <= 1
            /\ sent # <<>> =>
                  /\ Len(TokenCalls(r)) = 1
                  /\ calls[r][1] = TokenCall
                  /\ TokenOk(r)
                  /\ sent[1].auth = "Bearer " \o tokenReply[r].field
                  /\ \A q \in Reqs \ {r} :
                        TokenOk(q) =>
                            sent[1].auth # "Bearer " \o tokenReply[q].field

\* Two requests have each sent a verification call.
C16_Witness ==
    \E r1, r2 \in Reqs :
        /\ r1 # r2
        /\ VerifyCalls(r1) # <<>> /\ VerifyCalls(r2) # <<>>
        /\ VerifyCalls(r1)[1].auth = "Bearer " \o Granted(r1).field

-----------------------------------------------------------------------------
Kinds(r) == [i \in 1..Len(calls[r]) |-> calls[r][i].to]

\* C17: the outbound calls of a request are made in the order token
\* exchange, verification call, store update, each at most once; the
\* verification call only after the token exchange returned a token, the
\* store update only after the verification call returned SUCCESS; and a
\* request whose token exchange failed makes no verification call and does
\* not touch the store.
C17_OrderedAndGated ==
    \A r \in Reqs :
        /\ Kinds(r) \in { <<>>, << "token" >>, << "token", "verify" >>,
                          << "token", "verify", "store" >> }
        /\ Len(calls[r]) >= 2 => TokenOk(r)
        /\ Len(calls[r]) = 3 => verifyReply[r] = Success /\ isVerified[r] = "true"
        /\ Len(updates[r]) = (IF Len(calls[r]) = 3 THEN 1 ELSE 0)
        /\ (tokenReply[r] # NoReply /\ ~TokenOk(r)) =>
              Len(calls[r]) = 1 /\ updates[r] = <<>>

\* One request has made all three calls; the token exchange of another
\* failed.
C17_Witness ==
    \E r1, r2 \in Reqs :
        /\ Kinds(r1) = << "token", "verify", "store" >>
        /\ tokenReply[r2] # NoReply /\ ~TokenOk(r2) /\ pc[r2] = "Rejected"

-----------------------------------------------------------------------------
\* C18: any two rejected requests got the same response, the 401 with the
\* fixed text, whatever made the verification of each fail.
C18_UniformRejection ==
    \A r1, r2 \in Reqs :
        (pc[r1] = "Rejected" /\ pc[r2] = "Rejected") =>
            /\ responses[r1] = << Rejection >>
            /\ responses[r2] = responses[r1]

\* Two requests with the same body are rejected, one because its token
\* exchange failed, the other because the verification did not say SUCCESS.
C18_Witness ==
    \E r1, r2 \in Reqs :
        /\ wire[r1] = wire[r2]
        /\ pc[r1] = "Rejected" /\ pc[r2] = "Rejected"
        /\ ~TokenOk(r1)
        /\ TokenOk(r2) /\ verifyReply[r2] = Reply(FALSE, TRUE, TRUE, "FAILURE")

-----------------------------------------------------------------------------
\* C19: the store differs from its initial value only in validationStatus
\* of records some request committed an update for, where it is 'pending':
\* every other field of every record is as it was, and the records that
\* exist are those that existed.  An update of a record that does not exist
\* creates nothing: it fails with NOT_FOUND and the request is answered 500.
C19_FrameCondition ==
    /\ \A id \in TechIds :
          /\ store[id].exists = InitStore[id].exists
          /\ store[id].name = InitStore[id].name
          /\ store[id].validationStatus \in
                {InitStore[id].validationStatus, "pending"}
          /\ store[id] # InitStore[id] => \E r \in Reqs : Committed(r, id)
    /\ \A r \in Reqs :
          (updates[r] # <<>> /\ ~InitStore[Target(r)].exists) =>
              /\ pc[r] \in {"AwaitUpdate", "MutationFailed"}
              /\ pc[r] = "MutationFailed" =>
                    /\ storeError[r] = "NOT_FOUND"
                    /\ Statuses(r) = << 500 >>

\* One update was committed, and one for a technician without a record
\* has failed.
C19_Witness ==
    \E r1, r2 \in Reqs :
        /\ Committed(r1, "t1")
        /\ pc[r2] = "MutationFailed" /\ Target(r2) = "t9"
        /\ store["t9"] = NoDoc
        /\ store["t1"] = [InitStore["t1"] EXCEPT !.validationStatus = "pending"]

====
